---- MODULE Spec2Model ----
(***************************************************************************)
(* OmniSummarizer: the LangGraph workflow of src/main.py (Classifier ->    *)
(* one extractor -> Summary Generator) and the streaming front end of      *)
(* src/app.py (process_input_stream), as a state machine.                  *)
(*                                                                         *)
(* Text values (inputs, keys, contents, errors, summaries, log entries)    *)
(* are sequences of strings: a character, or an opaque piece of text that  *)
(* the program never takes apart.  The empty text "" is << >>, Python's    *)
(* None is the one-element sequence None.                                 *)
(***************************************************************************)
EXTENDS Integers, Sequences, FiniteSets, TLC

(* ------------------------------ bounds --------------------------------- *)

\* the number of status polls that may still observe PROCESSING
MaxPolls == 2

(* --------------------------- text helpers ------------------------------ *)

None == <<"None">>

\* Python truthiness of an Optional[str]
Truthy(x) == x # None /\ x # << >>

Whitespace == {" ", "\n", "\t"}

RECURSIVE lstrip(_)
lstrip(s) == IF s # << >> /\ Head(s) \in Whitespace THEN lstrip(Tail(s)) ELSE s

RECURSIVE rstrip(_)
rstrip(s) ==
    IF s # << >> /\ s[Len(s)] \in Whitespace
    THEN rstrip(SubSeq(s, 1, Len(s) - 1))
    ELSE s

\* str.strip()
strip(s) == rstrip(lstrip(s))

UpperCase ==
    <<"A", "B", "C", "D", "E", "F", "G", "H", "I", "J", "K", "L", "M",
      "N", "O", "P", "Q", "R", "S", "T", "U", "V", "W", "X", "Y", "Z">>

LowerCase ==
    <<"a", "b", "c", "d", "e", "f", "g", "h", "i", "j", "k", "l", "m",
      "n", "o", "p", "q", "r", "s", "t", "u", "v", "w", "x", "y", "z">>

LowerChar(c) ==
    IF \E i \in DOMAIN UpperCase : UpperCase[i] = c
    THEN LowerCase[CHOOSE i \in DOMAIN UpperCase : UpperCase[i] = c]
    ELSE c

\* str.lower()
lower(s) == [i \in 1..Len(s) |-> LowerChar(s[i])]

\* str.startswith(p)
startswith(s, p) == Len(s) >= Len(p) /\ SubSeq(s, 1, Len(p)) = p

\* p in s
contains(s, p) ==
    \E i \in 1..(Len(s) - Len(p) + 1) : SubSeq(s, i, i + Len(p) - 1) = p

\* str.split("\n"): the sequence of the lines of s
RECURSIVE split(_)
split(s) ==
    IF \A i \in 1..Len(s) : s[i] # "\n"
    THEN <<s>>
    ELSE LET k == CHOOSE i \in 1..Len(s) :
                      s[i] = "\n" /\ \A j \in 1..(i - 1) : s[j] # "\n"
         IN  <<SubSeq(s, 1, k - 1)>> \o split(SubSeq(s, k + 1, Len(s)))

Range(f) == {f[i] : i \in DOMAIN f}

\* the concatenation of a sequence of texts
RECURSIVE Flatten(_)
Flatten(ss) == IF ss = << >> THEN << >> ELSE Head(ss) \o Flatten(Tail(ss))

(* ------------------------------ inputs --------------------------------- *)

HTTP == <<"h", "t", "t", "p", ":", "/", "/">>
HTTPS == <<"h", "t", "t", "p", "s", ":", "/", "/">>
YOUTUBE_COM == <<"y", "o", "u", "t", "u", "b", "e", ".", "c", "o", "m">>
YOUTU_BE == <<"y", "o", "u", "t", "u", ".", "b", "e">>

\* what the user may type into the input box
Inputs ==
    { << >>,
      <<"h", "i">>,
      <<"f", "t", "p", ":", "/", "/", "a">>,
      <<" ", "H", "T", "T", "P", "S", ":", "/", "/", "a">>,
      <<"s", "e", "e", " ", "Y", "o", "u", "T", "u", "b", "e", ".", "c", "o", "m">> }

\* what the user may type into the key box
UserKeys == { << >>, <<" ">>, <<"k", "1">> }

\* MY_GEMINI_KEY of the environment
DefaultKeys == { None, <<"d", "k">> }

\* src/main.py:239  "an earlier step failed, skipping."
S_skipping == <<"an earlier step failed, skipping.">>

\* str(e) of a fault a collaborator raises: no text, one line, and two
\* lines of which the second reads like an entry of the log and ends in a
\* blank
FaultMsgs ==
    { << >>, <<"boom">>, <<"boom", "\n">> \o S_skipping \o <<" ">> }

\* page_content of the document the page fetch returns
PageTexts ==
    { << >>,
      <<"a", "\n", "\n", "\n", "b">>,
      <<"a", "\n", " ", "\n", "b">> }

\* response.content of the generation backend
ResponseTexts ==
    { << >>,
      <<"#", " ", "U+6A94", "U+540D", "U+FF1A", "A", " ", "b", "\n", "c">> }

(* ------------------------ texts of the program ------------------------- *)
\* A character outside ASCII is written by its code point, "U+6A94".

\* src/main.py:238  "cannot generate: "
S_cannot_generate ==
    <<"U+7121", "U+6CD5", "U+751F", "U+6210", ":", " ">>

\* src/main.py:246  "error: no API key configured"
S_no_key_summary ==
    <<"U+932F", "U+8AA4", "U+FF1A", "U+672A", "U+8A2D", "U+5B9A", " ", "A",
      "P", "I", " ", "K", "e", "y">>

\* src/main.py:307  "nothing to process"
S_no_content ==
    <<"U+7121", "U+5167", "U+5BB9", "U+53EF", "U+8655", "U+7406">>

\* src/main.py:315  "AI generation failed: "
S_generation_failed ==
    <<"A", "I", " ", "U+751F", "U+6210", "U+5931", "U+6557", ":", " ">>

\* src/main.py:171  "no subtitles and no API key, cannot process the audio."
E_no_key_planB ==
    <<"U+7121", "U+5B57", "U+5E55", "U+4E14", "U+672A", "U+63D0", "U+4F9B",
      " ", "A", "P", "I", " ", "K", "e", "y", "U+FF0C", "U+7121", "U+6CD5",
      "U+9032", "U+884C", "U+97F3", "U+8A0A", "U+8655", "U+7406", "U+3002">>

\* src/main.py:208  "the page fetch is empty"
E_empty_fetch ==
    <<"U+7DB2", "U+9801", "U+6293", "U+53D6", "U+70BA", "U+7A7A">>

\* src/main.py:247
E_no_key ==
    <<"N", "o", " ", "A", "P", "I", " ", "K", "e", "y">>

\* src/main.py:284  "Google failed to process the file"
E_remote_failed ==
    <<"G", "o", "o", "g", "l", "e", " ", "U+8655", "U+7406", "U+6A94",
      "U+6848", "U+5931", "U+6557">>

\* src/app.py:56  the first line of the displayed log
S_log_start == <<"start running...", "\n">>

(* ------------------------------- state --------------------------------- *)

VARIABLES
    default_api_key,  \* main.default_api_key, read once at import
    configured,       \* the key genai.configure() last stored, process-wide
    disk,             \* the files of the working directory
    state,            \* per run: the OmniState the graph threads through
    pc,               \* per run: where the run is
    loc,              \* per run: the locals of the node that is executing
    ui,               \* per run: the locals of process_input_stream, and
                      \*          what it has yielded to the observer
    hist,             \* per run: the node starts and returns, in order
    calls             \* per run: how often each collaborator was called

vars ==
    <<default_api_key, configured, disk, state, pc, loc, ui, hist, calls>>

Nodes ==
    {"analyze_node", "youtube_node", "web_node", "text_node", "summarize_node"}

Extractors == {"youtube_node", "web_node", "text_node"}

\* file_obj: None, or the handle upload_file / get_file returned
NoFile == [name |-> 0, state |-> "NONE"]

\* a or b
Or(a, b) == IF Truthy(a) THEN a ELSE b

(* --------------------- src/main.py: the pure parts ---------------------- *)

\* detect_source_type with the two tests in the other order: the address
\* prefix is looked at before the video-host markers
detect_source_type_prefix_first(input_text) ==
    LET text == lower(strip(input_text))
    IN  IF startswith(text, HTTP) \/ startswith(text, HTTPS)
        THEN "web"
        ELSE IF contains(text, YOUTUBE_COM) \/ contains(text, YOUTU_BE)
             THEN "youtube"
             ELSE "text"

detect_source_type(input_text) ==
    LET text == lower(strip(input_text))
    IN  IF contains(text, YOUTUBE_COM) \/ contains(text, YOUTU_BE)
        THEN "youtube"
        ELSE IF startswith(text, HTTP) \/ startswith(text, HTTPS)
             THEN "web"
             ELSE "text"

\* route_based_on_source with the "web" branch lost: a page address falls
\* through to the text extractor
route_based_on_source_without_web(st) ==
    LET source == st.source_type
    IN  IF source = "youtube" THEN "process_youtube"
        ELSE "process_text"

route_based_on_source(st) ==
    LET source == st.source_type
    IN  IF source = "youtube" THEN "process_youtube"
        ELSE IF source = "web" THEN "process_web"
        ELSE "process_text"

\* workflow.set_entry_point
EntryPoint == "analyze_node"

\* the path map of workflow.add_conditional_edges("analyze_node", ...)
PathMap(path) ==
    CASE path = "process_youtube" -> "youtube_node"
      [] path = "process_web" -> "web_node"
      [] path = "process_text" -> "text_node"

\* the edges with the text extractor wired to END instead of the Generator
Edge_text_to_end(node) ==
    CASE node = "youtube_node" -> "summarize_node"
      [] node = "web_node" -> "summarize_node"
      [] node = "text_node" -> "END"
      [] node = "summarize_node" -> "END"

\* workflow.add_edge
Edge(node) ==
    CASE node = "youtube_node" -> "summarize_node"
      [] node = "web_node" -> "summarize_node"
      [] node = "text_node" -> "summarize_node"
      [] node = "summarize_node" -> "END"

\* the node the compiled graph runs after `node` has returned and its update
\* is merged into st
NextNode(node, st) ==
    IF node = "analyze_node"
    THEN PathMap(route_based_on_source(st))
    ELSE Edge(node)

\* the merge without the reducer: logs is overwritten like every other key
Merge_overwrite(st, upd) ==
    [k \in DOMAIN st |-> IF k \in DOMAIN upd THEN upd[k] ELSE st[k]]

\* the merge of a node's update into the OmniState: logs is Annotated with
\* operator.add, every other key is overwritten
Merge(st, upd) ==
    [k \in DOMAIN st |->
        IF k \in DOMAIN upd
        THEN IF k = "logs" THEN st[k] \o upd[k] ELSE upd[k]
        ELSE st[k]]

analyze_input_node(st) ==
    LET source_type == detect_source_type(st.input_text)
        log_msg == <<"--- [node 1] analyze input ---", "\n", "detected: ",
                     source_type>>
    IN  [source_type |-> source_type, logs |-> <<log_msg>>]

load_text_node(st) ==
    [content |-> st.input_text,
     error |-> None,
     logs |-> << <<"--- [node 2-C] plain text ---">> >>]

\* re.sub(r"\n\s*\n", "\n\n", s): from a newline, the longest run of
\* whitespace that ends in a newline becomes two newlines
RECURSIVE CollapseBlankLines(_)
CollapseBlankLines(s) ==
    IF s = << >> THEN << >>
    ELSE LET rest == Tail(s)
             ends == {j \in 1..Len(rest) :
                         /\ rest[j] = "\n"
                         /\ \A i \in 1..j : rest[i] \in Whitespace}
         IN  IF Head(s) = "\n" /\ ends # {}
             THEN LET j == CHOOSE k \in ends : \A m \in ends : m <= k
                  IN  <<"\n", "\n">>
                          \o CollapseBlankLines(SubSeq(rest, j + 1, Len(rest)))
             ELSE <<Head(s)>> \o CollapseBlankLines(rest)

\* what loader.load() does: raises, or returns a list of documents
WebOutcomes ==
    [kind : {"fault"}, msg : FaultMsgs]
        \cup [kind : {"docs"}, docs : {<< >>} \cup {<<p>> : p \in PageTexts}]

\* load_web_node without the test for an empty list: docs[0] raises and the
\* handler records the message of the IndexError
load_web_node_unchecked(st, out) ==
    LET logs == << <<"--- [node 2-B] web page ---">> >>
    IN  IF out.kind = "fault"
        THEN [error |-> out.msg,
              content |-> None,
              logs |-> Append(logs, <<"x web failed:", " ">> \o out.msg)]
        ELSE IF out.docs = << >>
        THEN [error |-> <<"list index out of range">>,
              content |-> None,
              logs |-> Append(logs, <<"x web failed:", " ",
                                      "list index out of range">>)]
        ELSE LET clean_content == CollapseBlankLines(out.docs[1])
             IN  [content |-> clean_content,
                  error |-> None,
                  logs |-> Append(logs, <<"ok fetched the page, length: ",
                                         ToString(Len(clean_content))>>)]

load_web_node(st, out) ==
    LET logs == << <<"--- [node 2-B] web page ---">> >>
    IN  IF out.kind = "fault"
        THEN [error |-> out.msg,
              content |-> None,
              logs |-> Append(logs, <<"x web failed:", " ">> \o out.msg)]
        ELSE IF out.docs = << >>
        THEN [error |-> E_empty_fetch,
              content |-> None,
              logs |-> Append(logs, <<"x ">> \o E_empty_fetch)]
        ELSE LET clean_content == CollapseBlankLines(out.docs[1])
             IN  [content |-> clean_content,
                  error |-> None,
                  logs |-> Append(logs, <<"ok fetched the page, length: ",
                                         ToString(Len(clean_content))>>)]

(* ------------------ src/app.py: the derived file name ------------------- *)

\* src/app.py:17  "# <file name>:" with a full-width colon
TitleMarker ==
    <<"#", " ", "U+6A94", "U+540D", "U+FF1A">>

\* src/app.py:12, 31
S_summary_output ==
    <<"s", "u", "m", "m", "a", "r", "y", "_", "o", "u", "t", "p", "u", "t">>

\* the limits of src/app.py:22 and src/app.py:31
TitleLimit == 50
FallbackLimit == 30

\* the characters of the model that \w matches, the ideographs (which \w
\* matches as well) apart: letters, digits and the underscore
AsciiWord ==
    {"a", "b", "c", "d", "e", "f", "g", "h", "i", "j", "k", "l", "m", "n",
     "o", "p", "q", "r", "s", "t", "u", "v", "w", "x", "y", "z",
     "A", "B", "C", "D", "E", "F", "G", "H", "I", "J", "K", "L", "M", "N",
     "O", "P", "Q", "R", "S", "T", "U", "V", "W", "X", "Y", "Z",
     "0", "1", "2", "3", "4", "5", "6", "7", "8", "9", "_"}

\* the ideographs (U+4E00..U+9FA5) of the texts above
Cjk ==
    {"U+7121", "U+6CD5", "U+751F", "U+6210", "U+932F", "U+8AA4", "U+672A",
     "U+8A2D", "U+5B9A", "U+5167", "U+5BB9", "U+53EF", "U+8655", "U+7406",
     "U+5931", "U+6557", "U+5B57", "U+5E55", "U+4E14", "U+63D0", "U+4F9B",
     "U+9032", "U+884C", "U+97F3", "U+8A0A", "U+7DB2", "U+9801", "U+6293",
     "U+53D6", "U+70BA", "U+7A7A", "U+6A94", "U+6848", "U+540D"}

\* the class [\w U+4E00-U+9FA5 \- \s]
TitleAllowed == AsciiWord \cup Cjk \cup {"-"} \cup Whitespace

\* the class [\w U+4E00-U+9FA5]
FallbackAllowed == AsciiWord \cup Cjk

\* re.sub(r"[^...]+", "_", s): every maximal run of characters that are not
\* allowed becomes one underscore
\* what the substitution leaves of s[lo..hi]: an allowed character stays, the
\* first character of a run of others becomes the underscore, the rest of
\* the run goes
RECURSIVE SubBetween(_, _, _, _)
SubBetween(s, lo, hi, Allowed) ==
    IF lo > hi THEN << >>
    ELSE IF lo = hi
    THEN IF s[lo] \in Allowed THEN <<s[lo]>>
         ELSE IF lo > 1 /\ s[lo - 1] \notin Allowed THEN << >>
         ELSE <<"_">>
    ELSE LET mid == (lo + hi) \div 2
         IN  SubBetween(s, lo, mid, Allowed)
                 \o SubBetween(s, mid + 1, hi, Allowed)

SubDisallowed(s, Allowed) == SubBetween(s, 1, Len(s), Allowed)

\* s[:n]
Truncate(s, n) == SubSeq(s, 1, IF Len(s) < n THEN Len(s) ELSE n)

\* the first line of s
FirstLine(s) == split(s)[1]

\* extract_filename_and_clean_summary with the [:50] of src/app.py:22 lost
extract_filename_without_limit(summary_text) ==
    LET text == strip(summary_text)
        label == FirstLine(SubSeq(text, Len(TitleMarker) + 1, Len(text)))
        match == startswith(text, TitleMarker) /\ label # << >>
    IN  IF match
        THEN strip(SubDisallowed(strip(label), TitleAllowed))
        ELSE LET clean_line ==
                     SubDisallowed(FirstLine(text), FallbackAllowed)
             IN  IF clean_line # << >>
                 THEN Truncate(clean_line, FallbackLimit)
                 ELSE S_summary_output

\* extract_filename_and_clean_summary(summary_text)[0]
extract_filename(summary_text) ==
    LET text == strip(summary_text)
        label == FirstLine(SubSeq(text, Len(TitleMarker) + 1, Len(text)))
        \* re.search(r"^# <marker>(.+)", text): at least one character that
        \* is no newline follows the marker
        match == startswith(text, TitleMarker) /\ label # << >>
    IN  IF match
        THEN LET raw_name == strip(label)
             IN  Truncate(strip(SubDisallowed(raw_name, TitleAllowed)),
                          TitleLimit)
        ELSE LET first_line == FirstLine(text)
                 clean_line ==
                     SubDisallowed(first_line, FallbackAllowed)
             IN  IF clean_line # << >>
                 THEN Truncate(clean_line, FallbackLimit)
                 ELSE S_summary_output

(* ------------------------- the state machine --------------------------- *)

\* the runs the model holds; a specification lets some of them act
AllRuns == {1, 2}

Set(f, r, v) == [f EXCEPT ![r] = v]

Ok == [kind |-> "ok"]
Faults == [kind : {"fault"}, msg : FaultMsgs]

\* src/app.py:45-54
Inputs0(user_input, user_api_key) ==
    [input_text |-> user_input,
     api_key |-> IF strip(user_api_key) # << >> THEN user_api_key ELSE None,
     source_type |-> "",
     content |-> None,
     summary |-> None,
     error |-> None,
     file_obj |-> NoFile,
     logs |-> << >>]

\* no local is bound
LocInit ==
    [logs |-> << >>,
     current_key |-> None,
     generated_files |-> {},
     transcript_len |-> 0,
     exc |-> << >>,
     audio_file |-> NoFile,
     file_obj |-> NoFile,
     event |-> [node |-> "", updates |-> [logs |-> << >>]]]

\* no collaborator was called.  Besides the number of calls of each
\* collaborator: how often Plan B was entered, what Plan A met (a fault,
\* a subtitle file, the length of its transcript), whether a removal of a
\* file raised, the statuses the loop of the generator tested, and the
\* keys under which the run called upload_file and get_file, whether
\* upload_file returned a handle, and the message of the fault the audio
\* download or the upload raised, and what the page fetch gave (Ok before
\* any fetch)
CallsInit ==
    [configure |-> 0, captions |-> 0, audio |-> 0, upload |-> 0, fetch |-> 0,
     sleep |-> 0, get_file |-> 0, invoke |-> 0,
     planB |-> 0, planA_fault |-> FALSE, planA_found |-> FALSE,
     planA_len |-> -1, rm_fault |-> FALSE, seen |-> << >>, creds |-> {},
     uploaded |-> FALSE, planB_msg |-> None, fetched |-> Ok]

\* nothing is yielded yet.  last is the delta the observer received last:
\* the log it carries is log_content followed by last.tail
UiInit ==
    [log_content |-> << >>,
     final_summary |-> << >>,
     shown |-> << >>,
     ndeltas |-> 0,
     last |-> [tail |-> << >>, summary |-> << >>, file |-> None]]

\* the module is imported, no run is started
Init ==
    /\ default_api_key \in DefaultKeys
    /\ configured = None
    /\ disk = {}
    /\ state = [r \in AllRuns |-> Inputs0(<< >>, << >>)]
    /\ pc = [r \in AllRuns |-> "start"]
    /\ loc = [r \in AllRuns |-> LocInit]
    /\ ui = [r \in AllRuns |-> UiInit]
    /\ hist = [r \in AllRuns |-> << >>]
    /\ calls = [r \in AllRuns |-> CallsInit]

\* one yield of process_input_stream: the observer receives a delta
Deliver(u, tail, summary, file) ==
    [u EXCEPT !.last = [tail |-> tail, summary |-> summary, file |-> file],
              !.ndeltas = @ + 1]

\* src/app.py:88-90: the handler of a fault that reaches process_input_stream
AppExcept(u, msg) ==
    LET error_msg == <<"unknown error: ">> \o msg
    IN  Deliver(u, <<"\n", "x ">> \o error_msg, error_msg, None)

\* src/app.py:36-57: the guard on the input, the initial state of the graph
Start(r) ==
    /\ pc[r] = "start"
    /\ \E user_input \in Inputs, user_api_key \in UserKeys :
          IF user_input = << >>
          THEN /\ ui' = Set(ui, r, Deliver(ui[r], <<"please enter a URL or text">>,
                                          <<"please enter a URL or text">>, None))
               /\ pc' = Set(pc, r, "done")
               /\ UNCHANGED state
          ELSE /\ state' = Set(state, r, Inputs0(user_input, user_api_key))
               /\ ui' = Set(ui, r, [ui[r] EXCEPT !.log_content = S_log_start])
               /\ pc' = Set(pc, r, EntryPoint)
    /\ UNCHANGED <<default_api_key, configured, disk, loc, hist, calls>>

\* a node returns `upd`: the graph merges it into the state and the stream
\* hands it to the loop of process_input_stream
Return(r, node, upd, h) ==
    /\ state' = Set(state, r, Merge(state[r], upd))
    /\ loc' = Set(loc, r, [LocInit EXCEPT
                              !.event = [node |-> node, updates |-> upd]])
    /\ hist' = Set(hist, r, Append(h, <<"return", node>>))
    /\ pc' = Set(pc, r, "event")

\* a node raises: the fault leaves graph_app.stream and reaches the handler
\* of process_input_stream
Raise(r, node, msg, h) ==
    /\ ui' = Set(ui, r, AppExcept(ui[r], msg))
    /\ loc' = Set(loc, r, LocInit)
    /\ hist' = Set(hist, r, Append(h, <<"raise", node>>))
    /\ pc' = Set(pc, r, "done")
    /\ UNCHANGED state

Started(r, node) == Append(hist[r], <<"start", node>>)

\* src/main.py:63-67
Step_analyze(r) ==
    /\ pc[r] = "analyze_node"
    /\ Return(r, "analyze_node", analyze_input_node(state[r]),
              Started(r, "analyze_node"))
    /\ UNCHANGED <<default_api_key, configured, disk, ui, calls>>

\* src/main.py:224-229
Step_text(r) ==
    /\ pc[r] = "text_node"
    /\ Return(r, "text_node", load_text_node(state[r]), Started(r, "text_node"))
    /\ UNCHANGED <<default_api_key, configured, disk, ui, calls>>

\* src/main.py:201-220
Step_web(r) ==
    /\ pc[r] = "web_node"
    /\ \E out \in WebOutcomes :
          /\ Return(r, "web_node", load_web_node(state[r], out),
                    Started(r, "web_node"))
          /\ calls' = Set(calls, r, [calls[r] EXCEPT !.fetch = @ + 1,
                                                     !.fetched = out])
    /\ UNCHANGED <<default_api_key, configured, disk, ui>>

(* ------------- src/main.py:71-197  load_youtube_node -------------------- *)

\* src/main.py:145
AcceptThreshold == 50

\* len(full_transcript): the subtitle file is known by the length of the
\* transcript its cleaning (src/main.py:123-142) leaves
TranscriptLens == {AcceptThreshold, AcceptThreshold + 1}

\* the threshold test of src/main.py:145 written with >= instead of >
Accepted_at_least(full_transcript_len) == full_transcript_len >= AcceptThreshold

Accepted(full_transcript_len) == full_transcript_len > AcceptThreshold

\* file_prefix = "sub_" + uuid, temp_audio_file = "audio_" + uuid + ".m4a"
file_prefix(r) == <<"sub_", ToString(r)>>
temp_audio_file(r) == <<"audio_", ToString(r), ".m4a">>

endswith(s, p) ==
    Len(s) >= Len(p) /\ SubSeq(s, Len(s) - Len(p) + 1, Len(s)) = p

\* the files yt-dlp may write for outtmpl = file_prefix: subtitles in the
\* .vtt format and files in another format
SubtitleFiles(r) ==
    {file_prefix(r) \o ext :
        ext \in {<<".en", ".vtt">>, <<".en", ".srv3">>}}

\* src/main.py:111-115
generated_files(r, dir) ==
    {f \in dir : startswith(f, file_prefix(r)) /\ endswith(f, <<".vtt">>)}

\* src/main.py:162-163
prefixed_files(r, dir) == {f \in dir : startswith(f, file_prefix(r))}

\* Plan A is over: its locals are read no more
PlanA_over(l) ==
    [l EXCEPT !.generated_files = {}, !.transcript_len = 0, !.exc = << >>]

WithLog(l, line) == [l EXCEPT !.logs = Append(@, line)]

Count(c, what) == [c EXCEPT ![what] = @ + 1]

\* the key of run r alone: what a call would use were the key passed to it
genai_key_of_run(r) == Or(state[r].api_key, default_api_key)

\* the key a call of the genai module by run r is made with: upload_file
\* (src/main.py:188) and get_file (src/main.py:281) are given no key, they
\* use the one genai.configure stored last in the process
genai_key(r) == configured

\* one more call of the genai module by run r
Under(c, r) == [c EXCEPT !.creds = @ \cup {genai_key(r)}]

\* src/main.py:72-81: the key, genai.configure, the start of Plan A
Step_youtube(r) ==
    /\ pc[r] = "youtube_node"
    /\ LET current_key == Or(state[r].api_key, default_api_key)
           logs == << <<"--- [node 2-A] YouTube ---">>,
                      <<"trying to download subtitles with yt-dlp (Plan A)...">> >>
           go == /\ loc' = Set(loc, r, [loc[r] EXCEPT
                                           !.logs = logs,
                                           !.current_key = current_key])
                 /\ hist' = Set(hist, r, Started(r, "youtube_node"))
                 /\ pc' = Set(pc, r, "planA_download")
                 /\ UNCHANGED <<state, ui>>
       IN  IF Truthy(current_key)
           THEN /\ calls' = Set(calls, r, Count(calls[r], "configure"))
                /\ \/ configured' = current_key /\ go
                   \/ \E e \in Faults :
                         /\ Raise(r, "youtube_node", e.msg,
                                  Started(r, "youtube_node"))
                         /\ UNCHANGED configured
           ELSE go /\ UNCHANGED <<configured, calls>>
    /\ UNCHANGED <<default_api_key, disk>>

\* src/main.py:105-107: ydl.download writes files and returns, or raises
\* after it wrote some
PlanA_download(r) ==
    /\ pc[r] = "planA_download"
    /\ \E written \in SUBSET SubtitleFiles(r), out \in {Ok} \cup Faults :
          /\ disk' = disk \cup written
          /\ calls' = Set(calls, r, [Count(calls[r], "captions") EXCEPT
                                       !.planA_fault = out.kind = "fault"])
          /\ IF out.kind = "ok"
             THEN /\ pc' = Set(pc, r, "planA_files")
                  /\ UNCHANGED loc
             ELSE /\ pc' = Set(pc, r, "planA_except")
                  /\ loc' = Set(loc, r, [loc[r] EXCEPT !.exc = out.msg])
    /\ UNCHANGED <<default_api_key, configured, state, ui, hist>>

\* src/main.py:111-136: the .vtt files found, the first of them read and
\* cleaned; os.listdir gives them in any order
PlanA_files(r) ==
    /\ pc[r] = "planA_files"
    /\ LET found == generated_files(r, disk)
       IN  IF found = {}
           THEN /\ loc' = Set(loc, r, WithLog(loc[r],
                          <<"! yt-dlp ended but no subtitle file was found">>))
                /\ pc' = Set(pc, r, "planB_entry")
                /\ UNCHANGED calls
           ELSE \E sub_file \in found :
                  LET l == WithLog([loc[r] EXCEPT !.generated_files = found],
                                   <<"ok subtitle file: ">> \o sub_file)
                      c == [calls[r] EXCEPT !.planA_found = TRUE]
                  IN  \/ \E n \in TranscriptLens :
                            /\ loc' = Set(loc, r,
                                          [l EXCEPT !.transcript_len = n])
                            /\ calls' = Set(calls, r,
                                            [c EXCEPT !.planA_len = n])
                            /\ pc' = Set(pc, r, "planA_remove")
                      \/ \E e \in Faults :
                            /\ loc' = Set(loc, r, [l EXCEPT !.exc = e.msg])
                            /\ calls' = Set(calls, r,
                                            [c EXCEPT !.planA_fault = TRUE])
                            /\ pc' = Set(pc, r, "planA_except")
    /\ UNCHANGED <<default_api_key, configured, disk, state, ui, hist>>

\* src/main.py:138-155: the .vtt files removed one by one (a removal may
\* raise), then the length of the transcript decides
PlanA_remove(r) ==
    /\ pc[r] = "planA_remove"
    /\ LET found == loc[r].generated_files
           n == loc[r].transcript_len
       IN  \/ /\ disk' = disk \ found
              /\ UNCHANGED calls
              /\ IF Accepted(n)
                 THEN Return(r, "youtube_node",
                             [content |-> <<"[video subtitles]:", "\n",
                                            "transcript of length ",
                                            ToString(n)>>,
                              file_obj |-> NoFile,
                              error |-> None,
                              logs |-> Append(loc[r].logs,
                                  <<"ok subtitles cleaned, length: ",
                                    ToString(n)>>)],
                             hist[r])
                 ELSE /\ loc' = Set(loc, r, WithLog(PlanA_over(loc[r]),
                                <<"! the subtitles are too short">>))
                      /\ pc' = Set(pc, r, "planB_entry")
                      /\ UNCHANGED <<state, hist>>
           \/ \E removed \in SUBSET found, e \in Faults :
                 /\ removed # found
                 /\ disk' = disk \ removed
                 /\ loc' = Set(loc, r, [loc[r] EXCEPT !.exc = e.msg])
                 /\ calls' = Set(calls, r, [calls[r] EXCEPT
                                              !.planA_fault = TRUE,
                                              !.rm_fault = TRUE])
                 /\ pc' = Set(pc, r, "planA_except")
                 /\ UNCHANGED <<state, hist>>
    /\ UNCHANGED <<default_api_key, configured, ui>>

\* src/main.py:159-167: the handler of Plan A; a removal that raises is
\* passed over and leaves its file
PlanA_except(r) ==
    /\ pc[r] = "planA_except"
    /\ \E kept \in SUBSET prefixed_files(r, disk) :
          /\ disk' = (disk \ prefixed_files(r, disk)) \cup kept
          /\ calls' = Set(calls, r, [calls[r] EXCEPT
                                       !.rm_fault = @ \/ kept # {}])
    /\ loc' = Set(loc, r, WithLog(PlanA_over(loc[r]),
                 <<"! Plan A subtitle download failed:", " ">> \o loc[r].exc))
    /\ pc' = Set(pc, r, "planB_entry")
    /\ UNCHANGED <<default_api_key, configured, state, ui, hist>>

\* the key check of Plan B lost: the audio is downloaded without a key
PlanB_unchecked(current_key) == FALSE

\* src/main.py:170: if not current_key
PlanB_blocked(current_key) == ~Truthy(current_key)

\* src/main.py:169-182: Plan B needs a key
PlanB_entry(r) ==
    /\ pc[r] = "planB_entry"
    /\ IF PlanB_blocked(loc[r].current_key)
       THEN Return(r, "youtube_node",
                   [error |-> E_no_key_planB,
                    content |-> None,
                    logs |-> Append(loc[r].logs, <<"x ">> \o E_no_key_planB)],
                   hist[r])
       ELSE /\ loc' = Set(loc, r, WithLog(loc[r],
                      <<"! starting Plan B: downloading the audio...">>))
            /\ pc' = Set(pc, r, "planB_download")
            /\ UNCHANGED <<state, hist>>
    /\ calls' = Set(calls, r, Count(calls[r], "planB"))
    /\ UNCHANGED <<default_api_key, configured, disk, ui>>

\* the handler of Plan B with a fixed text for error instead of str(e)
PlanB_except_generic(r, msg) ==
    Return(r, "youtube_node",
           [error |-> <<"video processing failed">>,
            content |-> None,
            file_obj |-> NoFile,
            logs |-> Append(loc[r].logs,
                            <<"x the YouTube audio failed too:", " ">> \o msg)],
           hist[r])

\* the handler of Plan B returning whatever handle the upload had given
PlanB_except_with_handle(r, msg) ==
    Return(r, "youtube_node",
           [error |-> msg,
            content |-> None,
            file_obj |-> loc[r].audio_file,
            logs |-> Append(loc[r].logs,
                            <<"x the YouTube audio failed too:", " ">> \o msg)],
           hist[r])

\* src/main.py:195-197: the handler of Plan B
PlanB_except(r, msg) ==
    Return(r, "youtube_node",
           [error |-> msg,
            content |-> None,
            file_obj |-> NoFile,
            logs |-> Append(loc[r].logs,
                            <<"x the YouTube audio failed too:", " ">> \o msg)],
           hist[r])

\* src/main.py:184-187: ydl.download writes temp_audio_file and returns, or
\* raises, before or after it wrote the file
PlanB_download(r) ==
    /\ pc[r] = "planB_download"
    /\ \/ /\ disk' = disk \cup {temp_audio_file(r)}
          /\ loc' = Set(loc, r, WithLog(loc[r],
                       <<"audio downloaded, uploading to Gemini...">>))
          /\ pc' = Set(pc, r, "planB_upload")
          /\ UNCHANGED <<state, hist>>
          /\ calls' = Set(calls, r, Count(calls[r], "audio"))
       \/ \E e \in Faults, wrote \in BOOLEAN :
             /\ disk' = IF wrote THEN disk \cup {temp_audio_file(r)} ELSE disk
             /\ PlanB_except(r, e.msg)
             /\ calls' = Set(calls, r, [Count(calls[r], "audio") EXCEPT
                                          !.planB_msg = e.msg])
    /\ UNCHANGED <<default_api_key, configured, ui>>

\* the status a media file may have at the backend
MediaStates == {"PROCESSING", "ACTIVE", "FAILED"}

\* src/main.py:188: genai.upload_file returns a handle, or raises
PlanB_upload(r) ==
    /\ pc[r] = "planB_upload"
    /\ \/ \E s \in MediaStates :
             /\ loc' = Set(loc, r, [loc[r] EXCEPT
                                      !.audio_file = [name |-> r, state |-> s]])
             /\ pc' = Set(pc, r, "planB_remove")
             /\ calls' = Set(calls, r,
                             [Under(Count(calls[r], "upload"), r) EXCEPT
                                 !.uploaded = TRUE])
             /\ UNCHANGED <<state, hist>>
       \/ \E e \in Faults :
             /\ PlanB_except(r, e.msg)
             /\ calls' = Set(calls, r,
                             [Under(Count(calls[r], "upload"), r) EXCEPT
                                 !.planB_msg = e.msg])
    /\ UNCHANGED <<default_api_key, configured, disk, ui>>

\* the update of Plan B's success with the short transcript of Plan A kept
\* as content beside the handle
PlanB_success_with_transcript(audio_file, logs) ==
    [content |-> <<"[video subtitles]:", "\n", "short transcript">>,
     file_obj |-> audio_file,
     error |-> None,
     logs |-> logs]

\* src/main.py:194: the update Plan B returns with the handle
PlanB_success(audio_file, logs) ==
    [content |-> None, file_obj |-> audio_file, error |-> None, logs |-> logs]

\* src/main.py:190-194: the temporary file removed if it exists (the removal
\* may raise), the handle returned
PlanB_remove(r) ==
    /\ pc[r] = "planB_remove"
    /\ LET done == Return(r, "youtube_node",
                          PlanB_success(loc[r].audio_file,
                              Append(loc[r].logs,
                                  <<"ok uploaded (URI: ",
                                    ToString(loc[r].audio_file.name), ")">>)),
                          hist[r])
       IN  IF temp_audio_file(r) \in disk
           THEN \/ /\ disk' = disk \ {temp_audio_file(r)}
                   /\ done
                   /\ UNCHANGED calls
                \/ \E e \in Faults :
                      /\ PlanB_except(r, e.msg)
                      /\ calls' = Set(calls, r,
                                      [calls[r] EXCEPT !.rm_fault = TRUE])
                      /\ UNCHANGED disk
           ELSE done /\ UNCHANGED <<disk, calls>>
    /\ UNCHANGED <<default_api_key, configured, ui>>

(* ------------- src/main.py:233-318  generate_summary_node --------------- *)

\* current_key[:4] + "*" * 10 + current_key[-4:]
masked_key(k) ==
    Truncate(k, 4) \o <<"**********">>
        \o SubSeq(k, IF Len(k) > 4 THEN Len(k) - 3 ELSE 1, Len(k))

\* the short circuit with the `not` before the media handle lost
Blocked_with_handle(st) == Truthy(st.error) /\ st.file_obj # NoFile

\* src/main.py:236: an error and no media handle
Blocked(st) == Truthy(st.error) /\ st.file_obj = NoFile

\* src/main.py:313-318: the handler of the generator
Gen_except(r, logs, msg, h) ==
    Return(r, "summarize_node",
           [summary |-> S_generation_failed \o msg,
            error |-> msg,
            logs |-> Append(logs, <<"x AI generation failed:", " ">> \o msg)],
           h)

\* the update of the Generator without a key, with the error key left out
Gen_no_key_without_error(logs) ==
    [summary |-> S_no_key_summary,
     logs |-> Append(logs, <<"x no API key found">>)]

\* src/main.py:245-249: the update of the Generator without a key
Gen_no_key(logs) ==
    [summary |-> S_no_key_summary,
     error |-> E_no_key,
     logs |-> Append(logs, <<"x no API key found">>)]

\* src/main.py:233-276, 299-307: the short circuits, genai.configure and
\* the model object, then the choice between the media, the text and nothing
Step_summarize(r) ==
    /\ pc[r] = "summarize_node"
    /\ LET st == state[r]
           h == Started(r, "summarize_node")
           logs0 == << <<"\n", "--- [node 3] the AI is writing the summary ---">> >>
           current_key == Or(st.api_key, default_api_key)
           key_source == IF Truthy(st.api_key) THEN "manual" ELSE "default .env"
           logs1 == Append(logs0, <<"key: ">> \o masked_key(current_key)
                                      \o <<" (", key_source, ")">>)
       IN  IF Blocked(st)
           THEN /\ Return(r, "summarize_node",
                          [summary |-> S_cannot_generate \o st.error,
                           logs |-> Append(logs0, S_skipping)],
                          h)
                /\ UNCHANGED <<configured, ui, calls>>
           ELSE IF ~Truthy(current_key)
           THEN /\ Return(r, "summarize_node", Gen_no_key(logs0), h)
                /\ UNCHANGED <<configured, ui, calls>>
           ELSE /\ calls' = Set(calls, r, Count(calls[r], "configure"))
                /\ \/ \E e \in Faults :
                         /\ Raise(r, "summarize_node", e.msg, h)
                         /\ UNCHANGED configured
                   \/ /\ configured' = current_key
                      /\ UNCHANGED ui
                      /\ IF st.file_obj # NoFile
                         THEN /\ loc' = Set(loc, r, [loc[r] EXCEPT
                                     !.logs = Append(logs1, <<"mode: audio">>),
                                     !.file_obj = st.file_obj])
                              /\ hist' = Set(hist, r, h)
                              /\ pc' = Set(pc, r, "gen_wait")
                              /\ UNCHANGED state
                         ELSE IF Truthy(st.content)
                         THEN /\ loc' = Set(loc, r, [loc[r] EXCEPT
                                     !.logs = Append(logs1, <<"mode: text">>)])
                              /\ hist' = Set(hist, r, h)
                              /\ pc' = Set(pc, r, "gen_invoke")
                              /\ UNCHANGED state
                         ELSE Return(r, "summarize_node",
                                     [summary |-> S_no_content, logs |-> logs1],
                                     h)
    /\ UNCHANGED <<default_api_key, disk>>

\* the loop test written as "not yet ACTIVE": a FAILED handle is polled again
StillProcessing_until_active(file_obj) == file_obj.state # "ACTIVE"

\* whether the loop of src/main.py:279 goes round once more
StillProcessing(file_obj) == file_obj.state = "PROCESSING"

\* what genai.get_file may return for a handle that was PROCESSING: the
\* backend leaves PROCESSING before the poll after MaxPolls polls
PollStates(polls) ==
    IF polls < MaxPolls THEN MediaStates ELSE MediaStates \ {"PROCESSING"}

\* the loop tests file_obj.state.name
Tested(c, file_obj) == [c EXCEPT !.seen = Append(@, file_obj.state)]

\* src/main.py:279-284: while the handle is PROCESSING, sleep and get the
\* handle again (get_file may raise); a FAILED handle raises
Gen_wait(r) ==
    /\ pc[r] = "gen_wait"
    /\ LET file_obj == loc[r].file_obj
       IN  IF StillProcessing(file_obj)
           THEN /\ calls' = Set(calls, r,
                                Under(Count(Count(Tested(calls[r], file_obj),
                                                  "sleep"), "get_file"), r))
                /\ \/ \E s \in PollStates(calls[r].get_file) :
                         /\ loc' = Set(loc, r, [loc[r] EXCEPT
                                  !.file_obj = [name |-> file_obj.name,
                                                state |-> s]])
                         /\ UNCHANGED <<state, hist, pc>>
                   \/ \E e \in Faults :
                         Gen_except(r, loc[r].logs, e.msg, hist[r])
           ELSE /\ IF file_obj.state = "FAILED"
                   THEN Gen_except(r, loc[r].logs, E_remote_failed, hist[r])
                   ELSE /\ pc' = Set(pc, r, "gen_invoke")
                        /\ UNCHANGED <<state, loc, hist>>
                /\ calls' = Set(calls, r, Tested(calls[r], file_obj))
    /\ UNCHANGED <<default_api_key, configured, disk, ui>>

\* src/main.py:309-312: llm.invoke returns one of `responses` as the
\* summary, or raises
Gen_answer(r, responses) ==
    /\ pc[r] = "gen_invoke"
    /\ LET logs == Append(loc[r].logs, <<"calling Gemini for the summary...">>)
       IN  \/ \E content \in responses :
                 Return(r, "summarize_node",
                        [summary |-> content,
                         logs |-> Append(logs, <<"ok summary generated">>)],
                        hist[r])
           \/ \E e \in Faults : Gen_except(r, logs, e.msg, hist[r])
    /\ calls' = Set(calls, r, Count(calls[r], "invoke"))
    /\ UNCHANGED <<default_api_key, configured, disk, ui>>

Gen_invoke(r) == Gen_answer(r, ResponseTexts)

(* --------------- src/app.py:59-90  process_input_stream ----------------- *)

\* src/app.py:70
S_thinking == <<"thinking and writing the summary...">>

\* src/app.py:66: the lines of the displayed log
current_logs_set(log_content) == Range(split(strip(log_content)))

\* src/app.py:67-69: the entries of new_logs that are displayed
Fresh(log_content, new_logs) ==
    LET NotShown(log_line) == log_line \notin current_logs_set(log_content)
    IN  SelectSeq(new_logs, NotShown)

\* src/app.py:69: each displayed entry ends its line
Lines(entries) == Flatten([i \in 1..Len(entries) |-> entries[i] \o <<"\n">>])

\* src/app.py:62-73: one event of the stream; every displayed entry is
\* yielded with the log so far.  Then the graph goes on to the next node.
Stream_event(r) ==
    /\ pc[r] = "event"
    /\ LET node == loc[r].event.node
           updates == loc[r].event.updates
           fresh == IF "logs" \in DOMAIN updates
                    THEN Fresh(ui[r].log_content, updates.logs)
                    ELSE << >>
           log_content == ui[r].log_content \o Lines(fresh)
           final_summary ==
               IF "summary" \in DOMAIN updates /\ Truthy(updates.summary)
               THEN updates.summary
               ELSE ui[r].final_summary
           u == [ui[r] EXCEPT !.log_content = log_content,
                              !.final_summary = final_summary,
                              !.shown = @ \o fresh]
           next == NextNode(node, state[r])
       IN  /\ ui' = Set(ui, r,
                 IF fresh = << >> THEN u
                 ELSE [Deliver(u, << >>, S_thinking, None)
                          EXCEPT !.ndeltas = u.ndeltas + Len(fresh)])
           /\ pc' = Set(pc, r, IF next = "END" THEN "finish" ELSE next)
    /\ UNCHANGED <<default_api_key, configured, disk, state, loc, hist,
                   calls>>

\* src/app.py:76: the stream is exhausted
Finish(r) ==
    /\ pc[r] = "finish"
    /\ ui' = Set(ui, r, Deliver(ui[r], <<"\n", "ok done">>,
                                ui[r].final_summary, None))
    /\ hist' = Set(hist, r, Append(hist[r], <<"end", "END">>))
    /\ pc' = Set(pc, r, "persist")
    /\ UNCHANGED <<default_api_key, configured, disk, state, loc, calls>>

\* src/app.py:79-86: the summary is written to the derived file name; open
\* or write may raise
Persist(r) ==
    /\ pc[r] = "persist"
    /\ LET safe_name == extract_filename(ui[r].final_summary)
           output_filename == safe_name \o <<".txt">>
       IN  \/ /\ disk' = disk \cup {output_filename}
              /\ ui' = Set(ui, r, Deliver(ui[r],
                        <<"\n", "file created: ">> \o output_filename,
                        ui[r].final_summary, output_filename))
           \/ \E e \in Faults :
                 /\ ui' = Set(ui, r, AppExcept(ui[r], e.msg))
                 /\ UNCHANGED disk
    /\ pc' = Set(pc, r, "done")
    /\ UNCHANGED <<default_api_key, configured, state, loc, hist, calls>>

(* --------------------------- specifications ---------------------------- *)

Step(r) ==
    \/ Start(r)
    \/ Step_analyze(r)
    \/ Step_text(r)
    \/ Step_web(r)
    \/ Step_youtube(r)
    \/ PlanA_download(r)
    \/ PlanA_files(r)
    \/ PlanA_remove(r)
    \/ PlanA_except(r)
    \/ PlanB_entry(r)
    \/ PlanB_download(r)
    \/ PlanB_upload(r)
    \/ PlanB_remove(r)
    \/ Step_summarize(r)
    \/ Gen_wait(r)
    \/ Gen_invoke(r)
    \/ Stream_event(r)
    \/ Finish(r)
    \/ Persist(r)

\* one run of process_input_stream
Runs == {1}

Next == \E r \in Runs : Step(r)

Spec == Init /\ [][Next]_vars

(* -------------------- the Classifier on many inputs -------------------- *)

\* the pieces the inputs of the Classifier are put together from
ClassifierPieces ==
    { <<" ">>,
      <<"x">>,
      <<"h", "t", "t", "p">>,
      <<"H", "t", "t", "p", ":", "/", "/">>,
      <<"H", "T", "T", "P", "S", ":", "/", "/">>,
      <<"Y", "o", "u", "T", "u", "b", "e", ".", "c", "o", "m">>,
      YOUTU_BE }

\* an input has at most MaxPieces pieces
MaxPieces == 3

\* the inputs of at most n pieces
RECURSIVE TextsOf(_, _)
TextsOf(pieces, n) ==
    IF n = 0 THEN { << >> }
    ELSE LET shorter == TextsOf(pieces, n - 1)
         IN  shorter \cup {p \o t : p \in pieces, t \in shorter}

\* process_input_stream starts the graph only on a non-empty input
ClassifierInputs == TextsOf(ClassifierPieces, MaxPieces) \ { << >> }

\* the state in which process_input_stream has started the graph of run 1
\* on user_input, with user_api_key in the key box
StartedOn(user_input, user_api_key) ==
    /\ configured = None
    /\ disk = {}
    /\ state = [r \in AllRuns |->
                   IF r = 1 THEN Inputs0(user_input, user_api_key)
                   ELSE Inputs0(<< >>, << >>)]
    /\ pc = [r \in AllRuns |-> IF r = 1 THEN EntryPoint ELSE "start"]
    /\ loc = [r \in AllRuns |-> LocInit]
    /\ ui = [r \in AllRuns |->
                IF r = 1 THEN [UiInit EXCEPT !.log_content = S_log_start]
                ELSE UiInit]
    /\ hist = [r \in AllRuns |-> << >>]
    /\ calls = [r \in AllRuns |-> CallsInit]

InitClassifier ==
    /\ default_api_key = None
    /\ \E user_input \in ClassifierInputs : StartedOn(user_input, << >>)

NextClassifier == Step_analyze(1)

SpecClassifier == InitClassifier /\ [][NextClassifier]_vars

(* ------------------- the file name of many summaries ------------------- *)

\* 29 word characters
Long29 == [i \in 1..29 |-> "a"]

\* the pieces the answers of the generation backend are put together from;
\* the last one is a blank at the end of a line
SummaryPieces ==
    { TitleMarker, Long29, <<"A">>, <<" ">>, <<"-">>, <<"!">>, <<"\n">>,
      <<"U+6A94">>, <<" ", "\n">> }

\* an answer has at most MaxParts pieces
MaxParts == 3

SummaryTexts == TextsOf(SummaryPieces, MaxParts)

\* run 1 is started on a plain text with a key in the key box
InitFilename ==
    /\ default_api_key = None
    /\ StartedOn(<<"h", "i">>, <<"k", "1">>)

\* the steps of a run on a plain text; the backend answers any of
\* SummaryTexts
NextFilename ==
    \/ Step_analyze(1)
    \/ Step_text(1)
    \/ Step_summarize(1)
    \/ Gen_answer(1, SummaryTexts)
    \/ Stream_event(1)
    \/ Finish(1)
    \/ Persist(1)

SpecFilename == InitFilename /\ [][NextFilename]_vars

(* ------------------- two runs with different keys ---------------------- *)

\* process_input_stream has started the graph twice: run 1 on a video
\* address with one key in the key box, run 2 on a plain text with another
InitRace ==
    /\ default_api_key = None
    /\ configured = None
    /\ disk = {}
    /\ state = [r \in AllRuns |->
                   IF r = 1 THEN Inputs0(YOUTU_BE, <<"k", "1">>)
                   ELSE Inputs0(<<"h", "i">>, <<"k", "2">>)]
    /\ pc = [r \in AllRuns |-> EntryPoint]
    /\ loc = [r \in AllRuns |-> LocInit]
    /\ ui = [r \in AllRuns |-> [UiInit EXCEPT !.log_content = S_log_start]]
    /\ hist = [r \in AllRuns |-> << >>]
    /\ calls = [r \in AllRuns |-> CallsInit]

\* the steps of the two runs, in any order: run 1 up to the status polls of
\* its Generator, run 2 up to the genai.configure of its Generator
NextRace ==
    \/ Step_analyze(1)
    \/ Stream_event(1)
    \/ Step_youtube(1)
    \/ PlanA_download(1)
    \/ PlanA_files(1)
    \/ PlanA_remove(1)
    \/ PlanA_except(1)
    \/ PlanB_entry(1)
    \/ PlanB_download(1)
    \/ PlanB_upload(1)
    \/ PlanB_remove(1)
    \/ Step_summarize(1)
    \/ Gen_wait(1)
    \/ Step_analyze(2)
    \/ Stream_event(2)
    \/ Step_text(2)
    \/ Step_summarize(2)

SpecRace == InitRace /\ [][NextRace]_vars

(* ------------------------------ claims --------------------------------- *)

\* how often the event ev is in the history of run r
Times(r, ev) == Cardinality({i \in DOMAIN hist[r] : hist[r][i] = ev})

\* the place of the first event ev in the history of run r; 0 if there is none
Place(r, ev) ==
    IF Times(r, ev) = 0 THEN 0
    ELSE CHOOSE i \in DOMAIN hist[r] :
             hist[r][i] = ev /\ \A j \in 1..(i - 1) : hist[r][j] # ev

HasStarted(r, node) == Times(r, <<"start", node>>) > 0
HasReturned(r, node) == Times(r, <<"return", node>>) > 0

\* the extractor of a category
ExtractorOf(category) ==
    CASE category = "youtube" -> "youtube_node"
      [] category = "web" -> "web_node"
      [] category = "text" -> "text_node"
      [] OTHER -> "none"

\* C1: in every run at most the extractor of the category the Classifier
\* stored starts, after the Classifier returned and at most once; once the
\* Generator has started or the run is over, exactly that extractor has
\* executed and the other two have not.
C1_OneMatchingExtractor ==
    \A r \in AllRuns :
        /\ \A n \in Extractors :
              /\ Times(r, <<"start", n>>) <= 1
              /\ HasStarted(r, n) =>
                    /\ HasReturned(r, "analyze_node")
                    /\ n = ExtractorOf(state[r].source_type)
        /\ (HasStarted(r, "summarize_node") \/ (pc[r] = "done" /\ hist[r] # << >>))
              => {n \in Extractors : HasStarted(r, n)}
                     = {ExtractorOf(state[r].source_type)}

\* C1 witness: a run of a web input is over, the web extractor and the
\* Generator have executed
C1_Witness ==
    \E r \in AllRuns :
        /\ pc[r] = "done"
        /\ state[r].source_type = "web"
        /\ HasReturned(r, "web_node")
        /\ HasReturned(r, "summarize_node")

\* C2: within one run every step starts and returns at most once, the
\* Classifier is the first to start, an extractor starts only after the
\* Classifier has returned, the Generator starts only after an extractor has
\* returned, and the run reaches the end of the graph only after the
\* Generator has returned.
C2_StepsOnceAndInOrder ==
    \A r \in AllRuns :
        /\ \A n \in Nodes :
              /\ Times(r, <<"start", n>>) <= 1
              /\ Times(r, <<"return", n>>) <= 1
              /\ HasReturned(r, n) =>
                    Place(r, <<"start", n>>) < Place(r, <<"return", n>>)
        /\ hist[r] # << >> => hist[r][1] = <<"start", "analyze_node">>
        /\ \A n \in Extractors :
              HasStarted(r, n) =>
                 /\ HasReturned(r, "analyze_node")
                 /\ Place(r, <<"return", "analyze_node">>)
                       < Place(r, <<"start", n>>)
        /\ HasStarted(r, "summarize_node") =>
              \E n \in Extractors :
                 /\ HasReturned(r, n)
                 /\ Place(r, <<"return", n>>)
                       < Place(r, <<"start", "summarize_node">>)
        /\ Times(r, <<"end", "END">>) <= 1
        /\ Times(r, <<"end", "END">>) = 1 =>
              /\ HasReturned(r, "summarize_node")
              /\ Place(r, <<"return", "summarize_node">>)
                    < Place(r, <<"end", "END">>)
              /\ Place(r, <<"end", "END">>) = Len(hist[r])

\* C2 witness: a run of a video input went through the three steps to the
\* end of the graph
C2_Witness ==
    \E r \in AllRuns :
        hist[r] = << <<"start", "analyze_node">>, <<"return", "analyze_node">>,
                     <<"start", "youtube_node">>, <<"return", "youtube_node">>,
                     <<"start", "summarize_node">>,
                     <<"return", "summarize_node">>, <<"end", "END">> >>

\* Plan A yielded an accepted transcript: nothing in Plan A raised, a
\* subtitle file was found and the cleaned transcript has more than 50
\* characters
PlanA_accepted(r) ==
    /\ ~calls[r].planA_fault
    /\ calls[r].planA_found
    /\ calls[r].planA_len >= 51

C4_NoSubtitleFileLeft ==
    \A r \in AllRuns :
        (HasReturned(r, "youtube_node") /\ ~calls[r].rm_fault)
            => prefixed_files(r, disk) = {}

\* C5 (as claimed): once Plan B has called the upload, the temporary audio
\* file is gone when the video extractor has returned, whether the upload
\* returned or raised (no removal of a file raised)
C5_NoAudioFileLeft ==
    \A r \in AllRuns :
        (HasReturned(r, "youtube_node") /\ calls[r].upload = 1
            /\ ~calls[r].rm_fault)
            => temp_audio_file(r) \notin disk

\* C6 (as claimed, at the end of a run): a started run that is over has
\* reached the end of the graph with a summary in its run state, and that
\* summary is the one process_input_stream yielded at the end of the stream
C6_OverWithSummary ==
    \A r \in AllRuns :
        (pc[r] = "done" /\ hist[r] # << >>) =>
            /\ Times(r, <<"end", "END">>) = 1
            /\ state[r].summary # None
            /\ ui[r].final_summary = state[r].summary

\* C7 (as claimed): no fault of a collaborator leaves the step that made
\* the call
C7_NoFaultLeavesAStep ==
    \A r \in AllRuns : \A i \in DOMAIN hist[r] : hist[r][i][1] # "raise"

SeenTimes(r, s) ==
    Cardinality({i \in DOMAIN calls[r].seen : calls[r].seen[i] = s})

\* C9: the Generator sleeps and polls once for every PROCESSING status it
\* tests and tests a status only of a media handle; it calls the generation
\* backend for a media handle only after it tested ACTIVE as the last
\* status, and at most once; after ACTIVE it has called the backend once
\* when it returns; after FAILED it never calls the backend and returns
\* with error set and the failure summary.  PROCESSING, PROCESSING, ACTIVE
\* gives two polls.
C9_PollUntilReady ==
    \A r \in AllRuns :
        LET seen == calls[r].seen
            last == seen[Len(seen)]
        IN  /\ calls[r].get_file = calls[r].sleep
            /\ calls[r].get_file = SeenTimes(r, "PROCESSING")
            /\ seen # << >> => state[r].file_obj # NoFile
            /\ \A i \in 1..(Len(seen) - 1) : seen[i] = "PROCESSING"
            /\ calls[r].invoke <= 1
            /\ (calls[r].invoke = 1 /\ state[r].file_obj # NoFile)
                  => (seen # << >> /\ last = "ACTIVE")
            /\ (seen # << >> /\ last = "FAILED") => calls[r].invoke = 0
            /\ (HasReturned(r, "summarize_node") /\ seen # << >>) =>
                  /\ last = "ACTIVE" => calls[r].invoke = 1
                  /\ last = "FAILED" =>
                        /\ state[r].error = E_remote_failed
                        /\ state[r].summary
                              = S_generation_failed \o E_remote_failed
            /\ seen = <<"PROCESSING", "PROCESSING", "ACTIVE">> =>
                  calls[r].get_file = 2 /\ calls[r].sleep = 2

\* C9 witness: the handle was PROCESSING, PROCESSING, then ACTIVE, and
\* the Generator returned after two polls and one call of the backend
C9_Witness ==
    \E r \in AllRuns :
        /\ HasReturned(r, "summarize_node")
        /\ calls[r].seen = <<"PROCESSING", "PROCESSING", "ACTIVE">>
        /\ calls[r].get_file = 2
        /\ calls[r].invoke = 1

\* C10 (as claimed): when a run whose Generator produced a summary is over,
\* the last delta the observer received carries that summary
C10_LastDeltaCarriesSummary ==
    \A r \in AllRuns :
        (pc[r] = "done" /\ state[r].summary # None)
            => ui[r].last.summary = state[r].summary

\* the category the claim gives an input: video if the trimmed, case-folded
\* input holds a video-host marker anywhere, else web if it starts with
\* http:// or https://, else text
ClaimedCategory(input_text) ==
    LET t == lower(strip(input_text))
        video == \E i \in 1..Len(t) :
                    \/ startswith(SubSeq(t, i, Len(t)), YOUTUBE_COM)
                    \/ startswith(SubSeq(t, i, Len(t)), YOUTU_BE)
        web == startswith(t, HTTP) \/ startswith(t, HTTPS)
    IN  CASE video -> "youtube"
          [] ~video /\ web -> "web"
          [] ~video /\ ~web -> "text"

C12_ContentOrHandle ==
    \A r \in AllRuns :
        (pc[r] = "summarize_node" \/ HasStarted(r, "summarize_node"))
            => ~(Truthy(state[r].content) /\ state[r].file_obj # NoFile)

\* C12 witness: the Generator has started on a media handle of Plan B, with
\* no content
C12_Witness ==
    \E r \in AllRuns :
        /\ HasStarted(r, "summarize_node")
        /\ state[r].file_obj # NoFile
        /\ ~Truthy(state[r].content)
        /\ calls[r].upload = 1

\* a is a prefix of b
IsPrefix(a, b) == Len(a) <= Len(b) /\ SubSeq(b, 1, Len(a)) = a

\* C13: across every step of every run the log of the run state before the
\* step is a prefix of the log after it: entries are only added at the end
C13_LogOnlyGrows ==
    [][\A r \in AllRuns : IsPrefix(state[r].logs, state'[r].logs)]_vars

\* C13 witness: the three steps of a run have returned and the log holds
\* the entry of the Classifier first, then the entries of the web extractor
\* and of the Generator
C13_Witness ==
    \E r \in AllRuns :
        /\ HasReturned(r, "summarize_node")
        /\ HasReturned(r, "web_node")
        /\ Len(state[r].logs) >= 4
        /\ state[r].logs[1] = analyze_input_node(state[r]).logs[1]
        /\ state[r].logs[2] = <<"--- [node 2-B] web page ---">>

\* the characters a file name may hold: word characters (the underscore is
\* one), the ideographs U+4E00..U+9FA5, the hyphen and whitespace
NameAlphabet == AsciiWord \cup Cjk \cup {"-"} \cup Whitespace

\* x with every maximal run of characters outside `allowed` replaced by one
\* underscore: a character outside `allowed` stays, as an underscore, only
\* where it is the first of its run
RunsReplaced(x, allowed) ==
    LET Keep(i) == x[i] \in allowed \/ i = 1 \/ x[i - 1] \in allowed
        kept == SelectSeq([i \in 1..Len(x) |-> i], Keep)
    IN  [j \in 1..Len(kept) |->
            IF x[kept[j]] \in allowed THEN x[kept[j]] ELSE "_"]

\* the first n characters of x
FirstN(x, n) == [i \in 1..(IF Len(x) < n THEN Len(x) ELSE n) |-> x[i]]

\* the first line of x: x up to its first newline
UpToNewline(x) ==
    LET ends == {i \in 1..Len(x) : x[i] = "\n"}
    IN  IF ends = {} THEN x
        ELSE FirstN(x, (CHOOSE i \in ends : \A j \in ends : i <= j) - 1)

\* the file name the claim gives a summary: from the label when the first
\* line of the trimmed summary is the title marker followed by a label, and
\* from the first line otherwise (the default name when that leaves nothing)
ClaimedName(summary_text) ==
    LET text == strip(summary_text)
        first == UpToNewline(text)
        n == Len(TitleMarker)
        titled == Len(first) > n /\ FirstN(first, n) = TitleMarker
        label == [i \in 1..(Len(first) - n) |-> first[n + i]]
    IN  IF titled
        THEN FirstN(strip(RunsReplaced(strip(label), NameAlphabet)), 50)
        ELSE LET clean == RunsReplaced(first, AsciiWord \cup Cjk)
             IN  IF clean = << >> THEN S_summary_output ELSE FirstN(clean, 30)

\* the name, without ".txt", of the file process_input_stream created
CreatedName(r) == SubSeq(ui[r].last.file, 1, Len(ui[r].last.file) - 1)

\* C14: whenever process_input_stream has created the summary file, its
\* name (before ".txt") has at most 50 characters, all of them word
\* characters, ideographs, hyphens, whitespace or underscores, and it is
\* the name derived from the label when the first line of the summary
\* follows the title convention, from the first line otherwise
C14_FileNameBoundedAndClean ==
    \A r \in AllRuns :
        (pc[r] = "done" /\ ui[r].last.file # None) =>
            /\ Len(CreatedName(r)) <= 50
            /\ \A i \in 1..Len(CreatedName(r)) :
                  CreatedName(r)[i] \in NameAlphabet
            /\ CreatedName(r) = ClaimedName(ui[r].final_summary)
            /\ ui[r].last.file \in disk

\* C14 witness: the summary starts with the title marker and a label of 58
\* word characters; the file of the 50 first is created
C14_Witness ==
    \E r \in AllRuns :
        /\ pc[r] = "done"
        /\ ui[r].final_summary = TitleMarker \o Long29 \o Long29
        /\ ui[r].last.file = [i \in 1..50 |-> "a"] \o <<".txt">>
        /\ ui[r].last.file \in disk

\* C15: every media upload and every status poll of a run is made under the
\* key that genai.configure stored last in the process, whichever run
\* stored it: the configured key is one value for the whole process, written
\* by the video extractor and by the Generator of every run
C15_CallsUseTheProcessKey ==
    [][\A r \in AllRuns :
          (calls'[r].upload > calls[r].upload
              \/ calls'[r].get_file > calls[r].get_file)
          => /\ calls'[r].creds = calls[r].creds \cup {configured}
             /\ \E q \in AllRuns :
                   /\ calls[q].configure > 0
                   /\ configured = Or(state[q].api_key, default_api_key)]_vars

\* C15 witness: run 1 has uploaded its audio, or polled its status, while
\* the configured key was the key of run 2, which is not its own
C15_Witness ==
    /\ Or(state[1].api_key, default_api_key)
          # Or(state[2].api_key, default_api_key)
    /\ calls[1].upload + calls[1].get_file > 0
    /\ Or(state[2].api_key, default_api_key) \in calls[1].creds

\* the node has returned and its update is with process_input_stream: no
\* later node has run
JustReturned(r, node) == pc[r] = "event" /\ loc[r].event.node = node

\* C16 (as claimed): when the removal of a file raised in the video
\* extractor, the extractor returns what it would have returned had the
\* removal succeeded: a transcript of more than 50 characters is returned as
\* content without Plan B, and a handle that upload_file returned is
\* returned as the media handle
C16_RemovalFaultSwallowed ==
    \A r \in AllRuns :
        (JustReturned(r, "youtube_node") /\ calls[r].rm_fault) =>
            /\ calls[r].planA_len >= 51 =>
                  /\ Truthy(state[r].content)
                  /\ calls[r].planB = 0
            /\ calls[r].uploaded =>
                  /\ state[r].file_obj # NoFile
                  /\ state[r].error = None

\* C17: when the video extractor returns, Plan A yielded no accepted
\* transcript and no key is resolvable (none in the run, no default), then
\* error is the missing-key error of Plan B, content and the media handle
\* are unset, and neither the audio download nor the upload was called
C17_PlanBNeedsKey ==
    \A r \in AllRuns :
        (JustReturned(r, "youtube_node")
            /\ ~Truthy(Or(state[r].api_key, default_api_key))
            /\ ~PlanA_accepted(r))
        => /\ state[r].error = E_no_key_planB
           /\ state[r].content = None
           /\ state[r].file_obj = NoFile
           /\ calls[r].audio = 0
           /\ calls[r].upload = 0
           /\ temp_audio_file(r) \notin disk

\* C17 witness: without any key, Plan A found a transcript of 50 characters
\* and the video extractor returned from the key check of Plan B
C17_Witness ==
    \E r \in AllRuns :
        /\ JustReturned(r, "youtube_node")
        /\ state[r].api_key = None
        /\ default_api_key = None
        /\ calls[r].planA_len = 50
        /\ calls[r].planB = 1
        /\ state[r].error = E_no_key_planB

\* C18: when the audio download or the upload raised, the video extractor
\* has returned, and it returns with error equal to the message of that
\* fault and with content and the media handle unset; and the run state
\* holds a media handle only when the audio download and the upload were
\* both called and neither raised, and then the video extractor returns
\* with error cleared
C18_PlanBFaultOrHandle ==
    \A r \in AllRuns :
        /\ calls[r].planB_msg # None => HasReturned(r, "youtube_node")
        /\ (calls[r].planB_msg # None /\ JustReturned(r, "youtube_node")) =>
              /\ state[r].error = calls[r].planB_msg
              /\ state[r].content = None
              /\ state[r].file_obj = NoFile
        /\ state[r].file_obj # NoFile =>
              /\ HasReturned(r, "youtube_node")
              /\ calls[r].audio = 1
              /\ calls[r].upload = 1
              /\ calls[r].uploaded
              /\ calls[r].planB_msg = None
              /\ JustReturned(r, "youtube_node") => state[r].error = None

\* C18 witness: the upload raised "boom" after the audio was downloaded, and
\* the video extractor returned with that message as error
C18_Witness ==
    \E r \in AllRuns :
        /\ JustReturned(r, "youtube_node")
        /\ calls[r].audio = 1
        /\ calls[r].upload = 1
        /\ calls[r].planB_msg = <<"boom">>
        /\ state[r].error = <<"boom">>
        /\ state[r].file_obj = NoFile

\* C19: when the web extractor returns, exactly one of content and error
\* is set: after a fault of the page fetch error is the message of the
\* fault and content is unset, after a fetch that gave no document error is
\* the empty-fetch error and content is unset, and otherwise content is the
\* text of the first document with every blank-line run collapsed to one
\* empty line, and error is cleared
C19_WebContentOrError ==
    \A r \in AllRuns :
        JustReturned(r, "web_node") =>
            LET out == calls[r].fetched
            IN  /\ calls[r].fetch = 1
                /\ (state[r].content # None) # (state[r].error # None)
                /\ state[r].file_obj = NoFile
                /\ out.kind = "fault" =>
                      state[r].error = out.msg /\ state[r].content = None
                /\ (out.kind = "docs" /\ out.docs = << >>) =>
                      state[r].error = E_empty_fetch /\ state[r].content = None
                /\ (out.kind = "docs" /\ out.docs # << >>) =>
                      /\ state[r].content = CollapseBlankLines(out.docs[1])
                      /\ state[r].error = None

\* C19 witness: the page fetch gave a document with three newlines in a
\* row, and the web extractor returned its text with two
C19_Witness ==
    \E r \in AllRuns :
        /\ JustReturned(r, "web_node")
        /\ calls[r].fetched.kind = "docs"
        /\ calls[r].fetched.docs = << <<"a", "\n", "\n", "\n", "b">> >>
        /\ state[r].content = <<"a", "\n", "\n", "b">>
        /\ state[r].error = None

\* C20: a Generator that starts without a blocking error (no error, or a
\* media handle) and without a resolvable key (none in the run, no default)
\* returns in that step with error set to the missing-key error and the
\* missing-key summary, and calls no collaborator (no configure, no status
\* poll, no generation), whether or not there is content: the
\* nothing-to-summarize summary is not produced
C20_GeneratorNeedsKey ==
    [][\A r \in AllRuns :
          (pc[r] = "summarize_node" /\ pc'[r] # pc[r]
              /\ ~(Truthy(state[r].error) /\ state[r].file_obj = NoFile)
              /\ ~Truthy(Or(state[r].api_key, default_api_key)))
          => /\ pc'[r] = "event"
             /\ hist'[r] = hist[r] \o << <<"start", "summarize_node">>,
                                         <<"return", "summarize_node">> >>
             /\ state'[r].error = E_no_key
             /\ state'[r].summary = S_no_key_summary
             /\ state'[r].summary # S_no_content
             /\ calls'[r] = calls[r]
             /\ configured' = configured]_vars

\* C20 witness: without any key the Generator has returned the missing-key
\* summary for a web page whose text is empty, where there is nothing to
\* summarize
C20_Witness ==
    \E r \in AllRuns :
        /\ JustReturned(r, "summarize_node")
        /\ HasReturned(r, "web_node")
        /\ state[r].content = << >>
        /\ state[r].file_obj = NoFile
        /\ state[r].api_key = None
        /\ default_api_key = None
        /\ state[r].error = E_no_key
        /\ state[r].summary = S_no_key_summary

(* -------------------------------- C21 ---------------------------------- *)

\* the lines of the entries that earlier steps put on the displayed log
LinesOfSteps(r) ==
    UNION {Range(split(ui[r].shown[i])) : i \in 1..Len(ui[r].shown)}

\* the entries of a step of which no identical line is displayed yet
NotYetDisplayed(r, new_logs) ==
    LET New(log_line) == log_line \notin LinesOfSteps(r)
    IN  SelectSeq(new_logs, New)

DuplicateFree(a) == \A i, j \in 1..Len(a) : a[i] = a[j] => i = j

\* a is b with some entries left out, the order kept
RECURSIVE IsSubsequence(_, _)
IsSubsequence(a, b) ==
    IF a = << >> THEN TRUE
    ELSE IF b = << >> THEN FALSE
    ELSE IF Head(a) = Head(b) THEN IsSubsequence(Tail(a), Tail(b))
    ELSE IsSubsequence(a, Tail(b))

\* the last n entries of a
LastEntries(a, n) == SubSeq(a, Len(a) - n + 1, Len(a))

\* C21: when the observer takes the update of a step, an entry of the
\* update is appended to the displayed log if and only if no identical line
\* was displayed from an earlier step; the displayed entries are then a
\* duplicate-free subsequence of the log of the run state, in its order,
\* and the log of the run state holds every entry of the update.
C21_DisplayedIffNotYetDisplayed ==
    [][\A r \in AllRuns :
          (pc[r] = "event" /\ pc'[r] # "event") =>
              LET new_logs == loc[r].event.updates.logs
              IN  /\ ui'[r].shown = ui[r].shown \o NotYetDisplayed(r, new_logs)
                  /\ DuplicateFree(ui'[r].shown)
                  /\ IsSubsequence(ui'[r].shown, state'[r].logs)
                  /\ Len(state[r].logs) >= Len(new_logs)
                  /\ LastEntries(state[r].logs, Len(new_logs)) = new_logs]_vars

(* -------------------------------- C22 ---------------------------------- *)

\* C22: the update of the video extractor that carries a media handle
\* clears error, and the one that carries an error leaves no media handle;
\* when the Generator starts, error and the media handle are not both set;
\* and wherever the Generator polls the handle or invokes the generation
\* backend, error is unset.
C22_ErrorAndHandleExclusive ==
    \A r \in AllRuns :
        /\ JustReturned(r, "youtube_node") =>
              LET updates == loc[r].event.updates
              IN  /\ ("file_obj" \in DOMAIN updates
                          /\ updates.file_obj # NoFile) =>
                        /\ "error" \in DOMAIN updates
                        /\ updates.error = None
                        /\ state[r].error = None
                  /\ ("error" \in DOMAIN updates /\ updates.error # None) =>
                        state[r].file_obj = NoFile
        /\ pc[r] = "summarize_node" =>
              ~(state[r].error # None /\ state[r].file_obj # NoFile)
        /\ pc[r] \in {"gen_wait", "gen_invoke"} => state[r].error = None

\* C22 witness: Plan A raised, Plan B gave a handle, and the Generator is
\* about to invoke the generation backend with the handle and without error
C22_Witness ==
    \E r \in AllRuns :
        /\ pc[r] = "gen_invoke"
        /\ calls[r].planA_fault
        /\ calls[r].uploaded
        /\ state[r].file_obj # NoFile
        /\ state[r].error = None

(* -------------------------------- C23 ---------------------------------- *)

\* C23: whatever the summary is, the file name derived from it is not
\* empty: neither the name process_input_stream is about to write to, nor
\* the name (before ".txt") of the file it created.  This includes the
\* summary whose first line is the title marker with a blank label, and
\* the empty summary.
C23_FileNameNotEmpty ==
    \A r \in AllRuns :
        /\ pc[r] = "persist" => extract_filename(ui[r].final_summary) # << >>
        /\ (pc[r] = "done" /\ ui[r].last.file # None) => CreatedName(r) # << >>

====
